---- MODULE Spec2Model ----
(***************************************************************************)
(* Model of the PoA example node: the producer's scheduler (PoaMiner,      *)
(* src/src/poa_miner.rs) and the follower's relay (PoaFollower,            *)
(* src/src/poa_follower.rs).  Each await of the source is one step: the    *)
(* call is issued by the step that reaches the await, and the response is  *)
(* an input of the step that leaves it.                                    *)
(***************************************************************************)
EXTENDS Integers, Sequences, FiniteSets, TLC

VARIABLES
    role,               \* main.rs:44  which driver the process runs
    last_block_hashes,  \* PoaMiner.last_block_hashes (VecDeque, oldest first)
    last_timestamp,     \* PoaMiner.last_timestamp
    pc,                 \* position of PoaMiner::run / advance / update_forkchoice_state
    wall,               \* advance: the SystemTime::now() reading, <<>> outside advance
    timestamp,          \* advance: local `timestamp`, <<>> outside advance
    payload,            \* advance: hash of local `block`, <<>> before it is built
    fcu_res,            \* advance: local `res` of fork_choice_updated, <<>> without one
    built,              \* payload builder: number of blocks it has built so far
    accepted,           \* engine: hashes for which new_payload answered valid
    last_fcu,           \* engine: the last fork_choice_updated call of the scheduler
    calls,              \* calls issued by the current (or last) tick, in order
    last_tick,          \* run: the current (or last) tick and its result
    produced,           \* history: blocks committed by advance, in order
    rpc,                \* position of PoaFollower::run
    subscription,       \* relay: outcome of subscribe_blocks ("pending" before it)
    notified,           \* relay: notifications taken from the stream so far
    fetches,            \* relay: get_block_by_number calls issued so far
    last_fetch,         \* relay: how the last fetch ended ("none" before any)
    relay_hash,         \* relay: local `hash` of the block in hand, <<>> if none
    relay_calls,        \* engine: calls issued by the relay, in order
    relay_response,     \* engine: its last answer to the relay, <<>> before any
    json_input,         \* normalisation: the tree as serialised from the block
    json,               \* normalisation: the tree in hand
    passes              \* normalisation: times rename_uncles_to_ommers was applied

vars == <<role, last_block_hashes, last_timestamp, pc, wall, timestamp, payload,
          fcu_res, built, accepted, last_fcu, calls, last_tick, produced,
          rpc, subscription, notified, fetches, last_fetch, relay_hash,
          relay_calls, relay_response, json_input, json, passes>>

miner_vars == <<last_block_hashes, last_timestamp, pc, wall, timestamp, payload,
                fcu_res, built, accepted, last_fcu, calls, last_tick, produced>>

relay_vars == <<rpc, subscription, notified, fetches, last_fetch, relay_hash,
                relay_calls, relay_response>>

json_vars == <<json_input, json, passes>>

----------------------------------------------------------------------------
(* Bounds of the model. *)

\* Wall-clock readings are 0..MaxClock seconds.
MaxClock == 2
\* Blocks the payload builder builds in the general specification.
MaxBlocks == 4
\* Blocks the payload builder builds in the long-run specification.
LongBlocks == 66
\* Built blocks the engine may refuse in the long-run specification.
LongRejected == 0
\* Notifications the remote stream delivers.
MaxNotifications == 3
\* Entries of an array of a JSON tree.
MaxArrayLen == 2
\* Times the normalisation is applied to a tree.
MaxPasses == 2

(* Program constants. *)

\* poa_miner.rs:177  `if self.last_block_hashes.len() > 64`
WindowCap == 64
\* poa_miner.rs:122  `saturating_sub(32)`
SafeLag == 32
\* poa_miner.rs:126  `saturating_sub(64)`
FinalizedLag == 64
\* poa_miner.rs:58  the hash of the best block read at construction
GenesisHash == 0

Clock == 0..MaxClock

\* serde_json::Value::Null
Null == [t |-> "null"]

Max(a, b) == IF a >= b THEN a ELSE b

\* usize::saturating_sub
saturating_sub(a, b) == IF a > b THEN a - b ELSE 0

\* VecDeque::get with a 0-based index
get(q, i) == q[i + 1]

\* VecDeque::back
back(q) == q[Len(q)]

----------------------------------------------------------------------------
(* PoaMiner *)

\* Variant of forkchoice_state: safe follows head until SafeLag hashes exist.
forkchoice_state_safe_is_head(q) ==
    [ head_block_hash |-> back(q),
      safe_block_hash |->
          IF Len(q) < SafeLag THEN back(q) ELSE get(q, Len(q) - SafeLag),
      finalized_block_hash |-> get(q, saturating_sub(Len(q), FinalizedLag)) ]

\* Variant of forkchoice_state: the two lags exchanged.
forkchoice_state_lags_swapped(q) ==
    [ head_block_hash |-> back(q),
      safe_block_hash |-> get(q, saturating_sub(Len(q), FinalizedLag)),
      finalized_block_hash |-> get(q, saturating_sub(Len(q), SafeLag)) ]

\* poa_miner.rs:114-129.  Defined on a non-empty window; the callers model
\* the `expect` panics on an empty one.
forkchoice_state(q) ==
    [ head_block_hash |-> back(q),
      safe_block_hash |-> get(q, saturating_sub(Len(q), SafeLag)),
      finalized_block_hash |-> get(q, saturating_sub(Len(q), FinalizedLag)) ]

\* Variant of next_timestamp: the wall clock alone.
next_timestamp_wall_clock(last, now) == now

\* poa_miner.rs:134-140
next_timestamp(last, now) == Max(last + 1, now)

\* Variant of push_block_hash: evicts already at WindowCap entries.
push_block_hash_evict_early(q, h) ==
    LET pushed == Append(q, h)
    IN  IF Len(pushed) >= WindowCap THEN Tail(pushed) ELSE pushed

\* Variant of push_block_hash: evicts the newest entry instead of the oldest.
push_block_hash_pop_back(q, h) ==
    LET pushed == Append(q, h)
    IN  IF Len(pushed) > WindowCap THEN SubSeq(pushed, 1, Len(pushed) - 1) ELSE pushed

\* Variant of push_block_hash: the new hash goes to the oldest end.
push_block_hash_front(q, h) ==
    LET pushed == <<h>> \o q
    IN  IF Len(pushed) > WindowCap THEN Tail(pushed) ELSE pushed

\* poa_miner.rs:175-179
push_block_hash(q, h) ==
    LET pushed == Append(q, h)
    IN  IF Len(pushed) > WindowCap THEN Tail(pushed) ELSE pushed

\* Responses of the engine: Err (ok = FALSE) or Ok(res) with res.is_valid()
\* and res.payload_id.is_some().
EngineResponses ==
    { r \in [ok : BOOLEAN, valid : BOOLEAN, payload_id : BOOLEAN] :
        ~r.ok => (~r.valid /\ ~r.payload_id) }

\* Variant of advance_fcu_result: the payload id is not required.
advance_fcu_result_any_payload_id(res) ==
    IF ~res.ok THEN "engine error"
    ELSE IF ~res.valid THEN "Invalid payload status"
    ELSE "ok"

\* poa_miner.rs:149-155  the result of advance's fork_choice_updated step
advance_fcu_result(res) ==
    IF ~res.ok THEN "engine error"
    ELSE IF ~res.valid THEN "Invalid payload status"
    ELSE IF ~res.payload_id THEN "No payload id"
    ELSE "ok"

\* Variant of advance_new_payload_result: the status is not inspected.
advance_new_payload_result_unchecked(res) ==
    IF ~res.ok THEN "engine error" ELSE "ok"

\* Variant of advance_new_payload_result: the answer is dropped.
advance_new_payload_result_dropped(res) == "ok"

\* poa_miner.rs:168-172  the result of advance's new_payload step
advance_new_payload_result(res) ==
    IF ~res.ok THEN "engine error"
    ELSE IF ~res.valid THEN "Invalid payload"
    ELSE "ok"

\* poa_miner.rs:104-110  the result of update_forkchoice_state
update_forkchoice_result(res) ==
    IF ~res.ok THEN "engine error"
    ELSE IF ~res.valid THEN "Invalid fork choice update"
    ELSE "ok"

\* Variant of after_tick: an Err ends the loop.
after_tick_exit_on_error(result) == IF result = "ok" THEN "select" ELSE "exited"

\* poa_miner.rs:76-92  where run goes after a tick's handler returned `result`:
\* an Err is logged and the loop goes round again.
after_tick(result) == "select"

\* The engine accepted the payload: new_payload answered Ok with a valid status.
EngineAccepts(res) == res.ok /\ res.valid

\* A tick ends with `result`: the locals of the handler are dropped.
EndTick(result) ==
    /\ pc' = after_tick(result)
    /\ last_tick' = [last_tick EXCEPT !.result = result]
    /\ wall' = <<>>
    /\ timestamp' = <<>>
    /\ payload' = <<>>
    /\ fcu_res' = <<>>

\* poa_miner.rs:42-71 and main.rs:44-71
Init ==
    /\ role \in {"producer", "follower"}
    /\ last_block_hashes = <<GenesisHash>>
    /\ last_timestamp \in (IF role = "producer" THEN Clock ELSE {0})
    /\ pc = IF role = "producer" THEN "select" ELSE "idle"
    /\ wall = <<>>
    /\ timestamp = <<>>
    /\ payload = <<>>
    /\ fcu_res = <<>>
    /\ built = 0
    /\ accepted = {}
    /\ last_fcu = <<>>
    /\ calls = <<>>
    /\ last_tick = [tick |-> "none", result |-> "none"]
    /\ produced = <<>>
    /\ rpc = IF role = "follower" THEN "subscribing" ELSE "idle"
    /\ subscription = "pending"
    /\ notified = 0
    /\ fetches = 0
    /\ last_fetch = "none"
    /\ relay_hash = <<>>
    /\ relay_calls = <<>>
    /\ relay_response = <<>>
    /\ json_input = Null
    /\ json = Null
    /\ passes = 0

\* poa_miner.rs:80-81, 134-149  the block timer fires: advance reads the clock
\* and issues fork_choice_updated with payload attributes.
BlockTick(now) ==
    /\ pc = "select"
    /\ IF Len(last_block_hashes) = 0
       THEN /\ pc' = "panicked"
            /\ UNCHANGED <<wall, timestamp, last_fcu, calls, last_tick>>
       ELSE /\ pc' = "advance_fcu"
            /\ wall' = <<now>>
            /\ timestamp' = <<next_timestamp(last_timestamp, now)>>
            /\ last_fcu' = <<[state |-> forkchoice_state(last_block_hashes),
                             attrs |-> timestamp']>>
            /\ calls' = <<"fork_choice_updated">>
            /\ last_tick' = [tick |-> "advance", result |-> "running"]
    /\ UNCHANGED <<last_block_hashes, last_timestamp, payload, fcu_res, built,
                   accepted, produced>>
    /\ UNCHANGED <<role, relay_vars, json_vars>>

\* poa_miner.rs:149-160  fork_choice_updated answers; on success resolve_kind
\* is issued.
AdvanceFcuResponse(res) ==
    /\ pc = "advance_fcu"
    /\ IF advance_fcu_result(res) = "ok"
       THEN /\ pc' = "advance_resolve"
            /\ fcu_res' = <<res>>
            /\ calls' = Append(calls, "resolve_kind")
            /\ UNCHANGED <<wall, timestamp, payload, last_tick>>
       ELSE /\ EndTick(advance_fcu_result(res))
            /\ UNCHANGED calls
    /\ UNCHANGED <<last_block_hashes, last_timestamp, built, accepted, last_fcu,
                   produced>>
    /\ UNCHANGED <<role, relay_vars, json_vars>>

\* poa_miner.rs:157-163  the payload builder resolves nothing (None or Some(Err)).
PayloadUnresolved ==
    /\ pc = "advance_resolve"
    /\ EndTick("No payload")
    /\ UNCHANGED <<last_block_hashes, last_timestamp, built, accepted, last_fcu,
                   calls, produced>>
    /\ UNCHANGED <<role, relay_vars, json_vars>>

\* poa_miner.rs:157-168  the payload builder resolves a block, a new one each
\* time; new_payload is issued for it.
PayloadResolved(maxBlocks) ==
    /\ pc = "advance_resolve"
    /\ built < maxBlocks
    /\ built' = built + 1
    /\ payload' = <<built'>>
    /\ pc' = "advance_new_payload"
    /\ calls' = Append(calls, "new_payload")
    /\ UNCHANGED <<last_block_hashes, last_timestamp, wall, timestamp, fcu_res,
                   accepted, last_fcu, last_tick, produced>>
    /\ UNCHANGED <<role, relay_vars, json_vars>>

\* poa_miner.rs:168-181  new_payload answers; on success the clock and the
\* window are committed.
AdvanceNewPayloadResponse(res, maxRejected) ==
    /\ pc = "advance_new_payload"
    /\ ~EngineAccepts(res) => built - Cardinality(accepted) <= maxRejected
    /\ accepted' = IF EngineAccepts(res) THEN accepted \cup {payload[1]} ELSE accepted
    /\ IF advance_new_payload_result(res) = "ok"
       THEN /\ last_timestamp' = timestamp[1]
            /\ last_block_hashes' = push_block_hash(last_block_hashes, payload[1])
            /\ produced' = Append(produced, [hash |-> payload[1],
                                             timestamp |-> timestamp[1]])
       ELSE UNCHANGED <<last_block_hashes, last_timestamp, produced>>
    /\ EndTick(advance_new_payload_result(res))
    /\ UNCHANGED <<built, last_fcu, calls>>
    /\ UNCHANGED <<role, relay_vars, json_vars>>

\* poa_miner.rs:86-87, 96-104  the announcement timer fires:
\* update_forkchoice_state issues fork_choice_updated without attributes.
FcuTick ==
    /\ pc = "select"
    /\ IF Len(last_block_hashes) = 0
       THEN /\ pc' = "panicked"
            /\ UNCHANGED <<last_fcu, calls, last_tick>>
       ELSE /\ pc' = "announce_fcu"
            /\ last_fcu' = <<[state |-> forkchoice_state(last_block_hashes),
                             attrs |-> <<>>]>>
            /\ calls' = <<"fork_choice_updated">>
            /\ last_tick' = [tick |-> "announce", result |-> "running"]
    /\ UNCHANGED <<last_block_hashes, last_timestamp, wall, timestamp, payload,
                   fcu_res, built, accepted, produced>>
    /\ UNCHANGED <<role, relay_vars, json_vars>>

\* poa_miner.rs:104-110, 87-89
AnnounceFcuResponse(res) ==
    /\ pc = "announce_fcu"
    /\ EndTick(update_forkchoice_result(res))
    /\ UNCHANGED <<last_block_hashes, last_timestamp, built, accepted, last_fcu,
                   calls, produced>>
    /\ UNCHANGED <<role, relay_vars, json_vars>>

----------------------------------------------------------------------------
(* PoaFollower *)

\* poa_follower.rs:99-103  the forkchoice state the relay announces for a block
relay_forkchoice_state(hash) ==
    [ head_block_hash |-> hash,
      safe_block_hash |-> hash,
      finalized_block_hash |-> hash ]

\* Variant of after_subscribe: the loop is entered whatever the answer.
after_subscribe_continue(ok) == "waiting"

\* poa_follower.rs:56-67  where run goes after subscribe_blocks answered:
\* into the loop over the stream, or out (warn and return).
after_subscribe(ok) == IF ok THEN "waiting" ELSE "exited"

\* Answers of get_block_by_number(..).full().await: Err, Ok(None), Ok(Some).
FetchAnswers == {"error", "not_found", "block"}

\* poa_follower.rs:70-77, 108-116  where run goes after the fetch answered:
\* `.await.unwrap()` panics on Err; Ok(None) becomes the Err arm of the match
\* (warn, next notification); Ok(Some) enters the Ok arm.
after_fetch(answer) ==
    IF answer = "error" THEN "panicked"
    ELSE IF answer = "not_found" THEN "waiting"
    ELSE "deserialising"

\* Variant of after_deserialise: a block that does not deserialise is skipped.
after_deserialise_skip(ok) == IF ok THEN "new_payload" ELSE "waiting"

\* poa_follower.rs:86-97  where run goes after from_value of header and body:
\* `expect` panics when either fails, otherwise new_payload is issued.
after_deserialise(ok) == IF ok THEN "new_payload" ELSE "panicked"

\* Variant of after_relay_new_payload: an answer that is not valid skips the
\* forkchoice call.
after_relay_new_payload_checked(res) ==
    IF EngineAccepts(res) THEN "fork_choice_updated" ELSE "waiting"

\* poa_follower.rs:97-105  `let _ = new_payload(..).await`: whatever the
\* answer, fork_choice_updated is issued next.
after_relay_new_payload(res) == "fork_choice_updated"

\* Variant of after_relay_fcu: an Err ends the relay.
after_relay_fcu_exit_on_error(res) == IF res.ok THEN "waiting" ELSE "exited"

\* poa_follower.rs:105-107, 68  `let _ = fork_choice_updated(..).await`:
\* whatever the answer, the loop takes the next notification.
after_relay_fcu(res) == "waiting"

\* poa_follower.rs:56-57  subscribe_blocks succeeds
SubscribeOk ==
    /\ rpc = "subscribing"
    /\ subscription' = "ok"
    /\ rpc' = after_subscribe(TRUE)
    /\ UNCHANGED <<notified, fetches, last_fetch, relay_hash, relay_calls,
                   relay_response>>
    /\ UNCHANGED <<role, miner_vars, json_vars>>

\* poa_follower.rs:58-66  subscribe_blocks fails
SubscribeErr ==
    /\ rpc = "subscribing"
    /\ subscription' = "failed"
    /\ rpc' = after_subscribe(FALSE)
    /\ UNCHANGED <<notified, fetches, last_fetch, relay_hash, relay_calls,
                   relay_response>>
    /\ UNCHANGED <<role, miner_vars, json_vars>>

\* poa_follower.rs:68-74  the stream yields a header; its block is requested
StreamNext ==
    /\ rpc = "waiting"
    /\ notified < MaxNotifications
    /\ notified' = notified + 1
    /\ fetches' = fetches + 1
    /\ rpc' = "fetching"
    /\ UNCHANGED <<last_fetch, relay_hash, relay_calls, relay_response>>
    /\ UNCHANGED <<role, subscription, miner_vars, json_vars>>

\* poa_follower.rs:68, 117-118  the stream ends: the loop and run return
StreamEnd ==
    /\ rpc = "waiting"
    /\ rpc' = "exited"
    /\ UNCHANGED <<notified, fetches, last_fetch, relay_hash, relay_calls,
                   relay_response>>
    /\ UNCHANGED <<role, subscription, miner_vars, json_vars>>

\* poa_follower.rs:70-77  the fetch answers `answer`; a block that was
\* returned is normalised and deserialised (`deserialised` tells whether
\* from_value succeeds for header and body), and new_payload is issued for it.
FetchResponse(answer, deserialised) ==
    /\ rpc = "fetching"
    /\ IF after_fetch(answer) # "deserialising"
       THEN /\ rpc' = after_fetch(answer)
            /\ last_fetch' = answer
            /\ UNCHANGED <<relay_hash, relay_calls>>
       ELSE /\ rpc' = after_deserialise(deserialised)
            /\ last_fetch' = IF deserialised THEN "block" ELSE "bad_block"
            /\ IF after_deserialise(deserialised) = "new_payload"
               THEN /\ relay_hash' = <<notified>>
                    /\ relay_calls' =
                           Append(relay_calls,
                                  [call |-> "new_payload", hash |-> notified])
               ELSE UNCHANGED <<relay_hash, relay_calls>>
    /\ UNCHANGED <<notified, fetches, relay_response>>
    /\ UNCHANGED <<role, subscription, miner_vars, json_vars>>

\* poa_follower.rs:74  the request fails
FetchErr == FetchResponse("error", FALSE)

\* poa_follower.rs:75, 108-115  the request returns no block
FetchNone == FetchResponse("not_found", FALSE)

\* poa_follower.rs:78-97  the request returns a block
FetchBlock(deserialised) == FetchResponse("block", deserialised)

\* poa_follower.rs:97-105  new_payload answers (the answer is dropped);
\* fork_choice_updated is issued for the same hash.
RelayNewPayloadResponse(res) ==
    /\ rpc = "new_payload"
    /\ rpc' = after_relay_new_payload(res)
    /\ relay_response' = <<res>>
    /\ IF after_relay_new_payload(res) = "fork_choice_updated"
       THEN /\ relay_calls' =
                   Append(relay_calls,
                          [call |-> "fork_choice_updated",
                           state |-> relay_forkchoice_state(relay_hash[1]),
                           attrs |-> <<>>])
            /\ UNCHANGED relay_hash
       ELSE /\ relay_hash' = <<>>
            /\ UNCHANGED relay_calls
    /\ UNCHANGED <<notified, fetches, last_fetch>>
    /\ UNCHANGED <<role, subscription, miner_vars, json_vars>>

\* poa_follower.rs:105-107, 68  fork_choice_updated answers (the answer is
\* dropped); the loop waits for the next notification.
RelayFcuResponse(res) ==
    /\ rpc = "fork_choice_updated"
    /\ rpc' = after_relay_fcu(res)
    /\ relay_response' = <<res>>
    /\ relay_hash' = <<>>
    /\ UNCHANGED <<notified, fetches, last_fetch, relay_calls>>
    /\ UNCHANGED <<role, subscription, miner_vars, json_vars>>

----------------------------------------------------------------------------
(* Schema normalisation: rename_uncles_to_ommers *)

\* serde_json::Value as a tagged record: an object holds a map from field
\* names to values, an array a sequence of values.
Str(v) == [t |-> "str", v |-> v]

Obj(f) == [t |-> "obj", f |-> f]

Arr(q) == [t |-> "arr", s |-> q]

\* Field names of the trees: the renamed one, its new name, and another.
Keys == {"uncles", "ommers", "number"}

\* Scalars of the trees.
Leaves == {Str("0xabc"), Str("0xdef")}

\* The objects whose field names are in Keys and whose values are in S.
Objects(S) == { Obj(f) : f \in UNION { [D -> S] : D \in SUBSET Keys } }

\* The arrays of at most MaxArrayLen items in S.
Arrays(S) == { Arr(q) : q \in UNION { [1..n -> S] : n \in 0..MaxArrayLen } }

\* The scalars, and the objects and arrays of scalars.
Shallow == Leaves \cup Objects(Leaves) \cup Arrays(Leaves)

\* The trees fed to the normalisation: two levels of objects and arrays
\* over the scalars.
IsTree(value) ==
    \/ value \in Shallow
    \/ value \in Objects(Shallow)
    \/ value \in Arrays(Shallow)

\* serde_json::Map::remove (the map without the key)
map_remove(map, key) == [k \in DOMAIN map \ {key} |-> map[k]]

\* serde_json::Map::insert (an existing entry of the key is replaced)
map_insert(map, key, v) ==
    [k \in DOMAIN map \cup {key} |-> IF k = key THEN v ELSE map[k]]

RECURSIVE rename_uncles_to_ommers_moved_last(_)
RECURSIVE rename_uncles_to_ommers_skip_arrays(_)
RECURSIVE rename_uncles_to_ommers_rebuild(_)
RECURSIVE rename_uncles_to_ommers_insert_default(_)
RECURSIVE rename_uncles_to_ommers(_)

\* Variant of rename_uncles_to_ommers: the renamed field is inserted after
\* the loop over the fields, so its value is not visited.
rename_uncles_to_ommers_moved_last(value) ==
    IF value.t = "obj"
    THEN LET map == value.f
             rest == map_remove(map, "uncles")
             visited == [k \in DOMAIN rest |->
                            rename_uncles_to_ommers_moved_last(rest[k])]
         IN  Obj(IF "uncles" \in DOMAIN map
                 THEN map_insert(visited, "ommers", map["uncles"])
                 ELSE visited)
    ELSE IF value.t = "arr"
    THEN Arr([i \in 1..Len(value.s) |->
                 rename_uncles_to_ommers_moved_last(value.s[i])])
    ELSE value

\* Variant of rename_uncles_to_ommers: arrays are not visited.
rename_uncles_to_ommers_skip_arrays(value) ==
    IF value.t = "obj"
    THEN LET map == value.f
             renamed == IF "uncles" \in DOMAIN map
                        THEN map_insert(map_remove(map, "uncles"), "ommers",
                                        map["uncles"])
                        ELSE map
         IN  Obj([k \in DOMAIN renamed |->
                     rename_uncles_to_ommers_skip_arrays(renamed[k])])
    ELSE value

\* Variant of rename_uncles_to_ommers: an object with the field is rebuilt
\* from the renamed field alone.
rename_uncles_to_ommers_rebuild(value) ==
    IF value.t = "obj"
    THEN LET map == value.f
             renamed == IF "uncles" \in DOMAIN map
                        THEN map_insert(<<>>, "ommers", map["uncles"])
                        ELSE map
         IN  Obj([k \in DOMAIN renamed |->
                     rename_uncles_to_ommers_rebuild(renamed[k])])
    ELSE IF value.t = "arr"
    THEN Arr([i \in 1..Len(value.s) |->
                 rename_uncles_to_ommers_rebuild(value.s[i])])
    ELSE value

\* Variant of rename_uncles_to_ommers: the new field is inserted also when
\* the old one is absent, with Null as its value.
rename_uncles_to_ommers_insert_default(value) ==
    IF value.t = "obj"
    THEN LET map == value.f
             renamed == map_insert(map_remove(map, "uncles"), "ommers",
                                   IF "uncles" \in DOMAIN map
                                   THEN map["uncles"] ELSE Null)
         IN  Obj([k \in DOMAIN renamed |->
                     rename_uncles_to_ommers_insert_default(renamed[k])])
    ELSE IF value.t = "arr"
    THEN Arr([i \in 1..Len(value.s) |->
                 rename_uncles_to_ommers_insert_default(value.s[i])])
    ELSE value

\* poa_follower.rs:21-42
rename_uncles_to_ommers(value) ==
    IF value.t = "obj"
    THEN LET map == value.f
             renamed == IF "uncles" \in DOMAIN map
                        THEN map_insert(map_remove(map, "uncles"), "ommers",
                                        map["uncles"])
                        ELSE map
         IN  Obj([k \in DOMAIN renamed |-> rename_uncles_to_ommers(renamed[k])])
    ELSE IF value.t = "arr"
    THEN Arr([i \in 1..Len(value.s) |-> rename_uncles_to_ommers(value.s[i])])
    ELSE value

\* poa_follower.rs:79-83  a block was serialised to a tree: the tree is any of
\* trees, and nothing has been applied to it yet.
JsonInit ==
    /\ role = "follower"
    /\ last_block_hashes = <<GenesisHash>>
    /\ last_timestamp = 0
    /\ pc = "idle"
    /\ wall = <<>>
    /\ timestamp = <<>>
    /\ payload = <<>>
    /\ fcu_res = <<>>
    /\ built = 0
    /\ accepted = {}
    /\ last_fcu = <<>>
    /\ calls = <<>>
    /\ last_tick = [tick |-> "none", result |-> "none"]
    /\ produced = <<>>
    /\ rpc = "fetching"
    /\ subscription = "ok"
    /\ notified = 1
    /\ fetches = 1
    /\ last_fetch = "none"
    /\ relay_hash = <<>>
    /\ relay_calls = <<>>
    /\ relay_response = <<>>
    /\ IsTree(json_input)
    /\ json = json_input
    /\ passes = 0

\* poa_follower.rs:83  `let json = rename_uncles_to_ommers(json);`
Normalise ==
    /\ passes < MaxPasses
    /\ json' = rename_uncles_to_ommers(json)
    /\ passes' = passes + 1
    /\ UNCHANGED json_input
    /\ UNCHANGED <<role, miner_vars, relay_vars>>

JsonNext == Normalise

JsonSpec == JsonInit /\ [][JsonNext]_vars

----------------------------------------------------------------------------
(* Specifications *)

MinerNext(maxBlocks, maxRejected) ==
    \/ \E now \in Clock : BlockTick(now)
    \/ \E res \in EngineResponses : AdvanceFcuResponse(res)
    \/ PayloadUnresolved
    \/ PayloadResolved(maxBlocks)
    \/ \E res \in EngineResponses : AdvanceNewPayloadResponse(res, maxRejected)
    \/ FcuTick
    \/ \E res \in EngineResponses : AnnounceFcuResponse(res)

RelayNext ==
    \/ SubscribeOk
    \/ SubscribeErr
    \/ StreamNext
    \/ StreamEnd
    \/ FetchErr
    \/ FetchNone
    \/ \E deserialised \in BOOLEAN : FetchBlock(deserialised)
    \/ \E res \in EngineResponses : RelayNewPayloadResponse(res)
    \/ \E res \in EngineResponses : RelayFcuResponse(res)

\* The process runs one of the two drivers (main.rs:44-71).
Next ==
    \/ MinerNext(MaxBlocks, MaxBlocks)
    \/ RelayNext

Spec == Init /\ [][Next]_vars

\* The producer alone, over a run long enough to fill the window and evict.
LongInit == Init /\ role = "producer"

LongNext == MinerNext(LongBlocks, LongRejected)

LongSpec == LongInit /\ [][LongNext]_vars

\* The scheduler with the fairness its scheduling gives: tokio::select! picks
\* among the ready timers at random, so a timer that is ready again and again
\* is eventually taken (strong fairness), and every awaited call is eventually
\* answered (weak fairness).
Fairness ==
    /\ SF_vars(\E now \in Clock : BlockTick(now))
    /\ SF_vars(FcuTick)
    /\ WF_vars(\E res \in EngineResponses : AdvanceFcuResponse(res))
    /\ WF_vars(PayloadUnresolved \/ PayloadResolved(MaxBlocks))
    /\ WF_vars(\E res \in EngineResponses : AdvanceNewPayloadResponse(res, MaxBlocks))
    /\ WF_vars(\E res \in EngineResponses : AnnounceFcuResponse(res))

LiveSpec == Spec /\ Fairness

----------------------------------------------------------------------------
(* Properties *)

\* The step commits a block: a successful Advance.
Committed == Len(produced') = Len(produced) + 1

\* The hash committed by the step.
CommittedHash == produced'[Len(produced')].hash

\* The chain as produced: the construction hash, then the produced hashes.
Chain == <<GenesisHash>> \o [i \in 1..Len(produced) |-> produced[i].hash]

\* The last tick of the scheduler ended in an error.
TickFailed ==
    /\ role = "producer"
    /\ last_tick.result \notin {"none", "running", "ok"}

\* C1: the window never holds more than 64 hashes; a successful Advance
\* removes the oldest hash exactly when the window held 64 hashes before the
\* append, and appends the new hash; every other step leaves the window as
\* it is.
C1_WindowFifoBound ==
    /\ [](Len(last_block_hashes) <= WindowCap)
    /\ [][IF Committed
          THEN IF Len(last_block_hashes) = WindowCap
               THEN last_block_hashes' =
                        Append(Tail(last_block_hashes), CommittedHash)
               ELSE last_block_hashes' =
                        Append(last_block_hashes, CommittedHash)
          ELSE last_block_hashes' = last_block_hashes]_vars

\* C1 witness: the window is full and its oldest hash is no longer the
\* construction hash: an eviction has happened.
C1_Witness ==
    /\ Len(last_block_hashes) = WindowCap
    /\ last_block_hashes[1] # GenesisHash

\* C2: a successful Advance commits max(last_timestamp + 1, wall clock), which
\* is strictly greater than the timestamp committed before, whatever the
\* clock read.
C2_TimestampStrictlyIncreases ==
    [][Committed =>
          /\ last_timestamp' = Max(last_timestamp + 1, wall[1])
          /\ last_timestamp' > last_timestamp
          /\ produced'[Len(produced')].timestamp = last_timestamp']_vars

\* C2 witness: two blocks were committed and the clock, which reads at most
\* MaxClock, was behind the committed timestamp.
C2_Witness ==
    /\ Len(produced) >= 2
    /\ last_timestamp > MaxClock

\* C3: the window and last_timestamp change only in the step in which
\* new_payload answers valid for the block in hand, the step that ends a
\* successful Advance; a step that ends a tick in an error changes neither.
C3_FailedTickLeavesState ==
    [][/\ (last_block_hashes' # last_block_hashes \/ last_timestamp' # last_timestamp)
          => /\ pc = "advance_new_payload"
             /\ payload[1] \in accepted'
             /\ last_tick' = [tick |-> "advance", result |-> "ok"]
       /\ (last_tick'.result \notin {"none", "running", "ok"})
          => /\ last_block_hashes' = last_block_hashes
             /\ last_timestamp' = last_timestamp]_vars

\* C3 witness: an Advance failed at new_payload after an earlier one succeeded.
C3_Witness ==
    /\ last_tick = [tick |-> "advance", result |-> "Invalid payload"]
    /\ Len(produced) >= 1
    /\ built > Len(produced)

\* The hashes a forkchoice call may name: the construction hash and the
\* hashes new_payload has answered valid for.
Known == {GenesisHash} \cup accepted

\* C4: every fork_choice_updated call of the scheduler names only the
\* construction hash or hashes the engine has accepted, and so does the
\* window, in every reachable state.
C4_ForkchoiceNamesAcceptedBlocks ==
    /\ role = "producer" =>
          \A i \in 1..Len(last_block_hashes) : last_block_hashes[i] \in Known
    /\ \A i \in 1..Len(last_fcu) :
          /\ last_fcu[i].state.head_block_hash \in Known
          /\ last_fcu[i].state.safe_block_hash \in Known
          /\ last_fcu[i].state.finalized_block_hash \in Known

\* C4 witness: a call named a produced block as head after another block was
\* refused by the engine.
C4_Witness ==
    /\ last_fcu # <<>>
    /\ last_fcu[1].state.head_block_hash \in accepted
    /\ built > Cardinality(accepted) + Len(payload)

\* forkchoice_state() of the current window.
Current == forkchoice_state(last_block_hashes)

\* The position of hash h in the window (hashes in the window are distinct).
Position(h) == CHOOSE i \in 1..Len(last_block_hashes) : last_block_hashes[i] = h

\* C5 as stated: safe == head whenever the window holds fewer than 32 hashes,
\* and finalized == head whenever it holds fewer than 64.
C5_AsStated ==
    /\ Len(last_block_hashes) < SafeLag =>
          Current.safe_block_hash = Current.head_block_hash
    /\ Len(last_block_hashes) < FinalizedLag =>
          Current.finalized_block_hash = Current.head_block_hash

\* C5 as amended: with fewer than 32 hashes safe is the oldest hash of the
\* window, and with fewer than 64 finalized is the oldest hash of the window;
\* either equals head only while the window holds a single hash.
C5_ShortWindowClampsToOldest ==
    /\ Len(last_block_hashes) < SafeLag =>
          /\ Current.safe_block_hash = last_block_hashes[1]
          /\ (Current.safe_block_hash = Current.head_block_hash
                <=> Len(last_block_hashes) = 1)
    /\ Len(last_block_hashes) < FinalizedLag =>
          /\ Current.finalized_block_hash = last_block_hashes[1]
          /\ (Current.finalized_block_hash = Current.head_block_hash
                <=> Len(last_block_hashes) = 1)

\* C5 witness: a window of 31 hashes, the longest the first half covers.
C5_Witness ==
    /\ role = "producer"
    /\ Len(last_block_hashes) = SafeLag - 1
    /\ Current.safe_block_hash = GenesisHash
    /\ Current.head_block_hash # GenesisHash

\* C6 as stated: with 64 hashes in the window, finalized is the hash 64
\* positions behind head in production order (read where such a hash exists).
C6_AsStated ==
    (Len(last_block_hashes) = WindowCap /\ Len(Chain) > FinalizedLag) =>
        Current.finalized_block_hash = Chain[Len(Chain) - FinalizedLag]

\* C6 as amended: with 64 hashes in the window, head is the last hash
\* produced and finalized is the hash 63 positions behind it in production
\* order, the oldest hash the window retains.
C6_FinalizedIsOldestRetained ==
    Len(last_block_hashes) = WindowCap =>
        /\ Current.head_block_hash = Chain[Len(Chain)]
        /\ Current.finalized_block_hash = Chain[Len(Chain) - (FinalizedLag - 1)]
        /\ Current.finalized_block_hash = last_block_hashes[1]

\* C6 witness: the window is full and more than 64 hashes exist, so the hash
\* 64 positions behind head exists and has been evicted.
C6_Witness ==
    /\ Len(last_block_hashes) = WindowCap
    /\ Len(Chain) > FinalizedLag

\* C7: for a window of length len, head is the last entry, safe the entry at
\* 0-based index max(len - 32, 0) and finalized the entry at 0-based index
\* max(len - 64, 0); finalized is not newer than safe, nor safe than head.
C7_ForkchoiceStateOffsets ==
    role = "producer" =>
        LET len == Len(last_block_hashes)
        IN  /\ len \in 1..WindowCap
            /\ Current.head_block_hash = last_block_hashes[len]
            /\ Current.safe_block_hash = last_block_hashes[Max(len - SafeLag, 0) + 1]
            /\ Current.finalized_block_hash =
                   last_block_hashes[Max(len - FinalizedLag, 0) + 1]
            /\ Position(Current.finalized_block_hash)
                   <= Position(Current.safe_block_hash)
            /\ Position(Current.safe_block_hash)
                   <= Position(Current.head_block_hash)

\* C7 witness: a window in which head, safe and finalized are three
\* different hashes.
C7_Witness ==
    /\ role = "producer"
    /\ Len(last_block_hashes) = SafeLag + 16
    /\ Current.safe_block_hash # Current.head_block_hash
    /\ Current.safe_block_hash # Current.finalized_block_hash

\* C8: the window is never empty and forkchoice_state never panics; up to 63
\* successful Advances the window is the construction hash followed by the
\* produced hashes in production order, whatever ticks failed in between; and
\* the produced timestamps increase by at least one second each.
C8_WindowIsProductionOrder ==
    role = "producer" =>
        /\ Len(last_block_hashes) >= 1
        /\ pc # "panicked"
        /\ Len(produced) <= WindowCap - 1 => last_block_hashes = Chain
        /\ Len(last_block_hashes) = IF Len(Chain) <= WindowCap
                                    THEN Len(Chain) ELSE WindowCap
        /\ \A i \in 1..Len(produced) - 1 :
              produced[i + 1].timestamp >= produced[i].timestamp + 1

\* C8 witness: 63 Advances succeeded and the window holds 64 hashes, the last
\* tick having failed.
C8_Witness ==
    /\ Len(produced) = WindowCap - 1
    /\ Len(last_block_hashes) = WindowCap
    /\ TickFailed

\* C9: a failed tick leaves the run loop waiting on both timers, and under
\* the fairness of the timers and of the responses, after any failed tick a
\* production tick and an announcement tick are each eventually handled.
C9_FailedTickKeepsLoopRunning ==
    /\ [][(last_tick' # last_tick /\ TickFailed') => pc' = "select"]_vars
    /\ [](role = "producer" => pc \notin {"exited", "panicked"})
    /\ (TickFailed /\ pc = "select") ~> (pc = "advance_fcu")
    /\ (TickFailed /\ pc = "select") ~> (pc = "announce_fcu")

\* C9 witness: the loop is waiting on its timers after a failed tick.
C9_Witness ==
    /\ TickFailed
    /\ pc = "select"

\* C10: if the relay's subscription fails, the relay exits, has issued no
\* block fetch and no new_payload or fork_choice_updated call, and has taken
\* no notification.
C10_SubscriptionFailureExits ==
    subscription = "failed" =>
        /\ rpc = "exited"
        /\ fetches = 0
        /\ notified = 0
        /\ relay_calls = <<>>

\* C10 witness: the subscription failed and the relay has exited.
C10_Witness ==
    /\ subscription = "failed"
    /\ rpc = "exited"

\* C11 as stated: when the fetch of a notified block answers with an error or
\* with no block, the relay issues no engine call for that notification and
\* goes back to waiting for the next notification.
C11_AsStated ==
    [][(rpc = "fetching" /\ last_fetch' \in {"error", "not_found"})
          => /\ rpc' = "waiting"
             /\ relay_calls' = relay_calls]_vars

\* The new_payload call the relay issues for block hash h.
RelayNewPayloadCall(h) == [call |-> "new_payload", hash |-> h]

\* The fork_choice_updated call the claims expect for block hash h: no
\* payload attributes, head = safe = finalized = h.
RelayFcuCall(h) ==
    [call |-> "fork_choice_updated",
     state |-> [head_block_hash |-> h, safe_block_hash |-> h,
                finalized_block_hash |-> h],
     attrs |-> <<>>]

\* C12: the relay's engine calls come in pairs, one new_payload for each block
\* that was fetched and deserialised, then, whatever new_payload answered, one
\* fork_choice_updated without attributes and with head = safe = finalized =
\* that block's hash; the second call of a pair is issued only in the step in
\* which new_payload answers, and no block is submitted twice.
C12_OnePayloadThenOneForkchoice ==
    /\ [](/\ \A i \in 1..Len(relay_calls) :
                IF i % 2 = 1
                THEN relay_calls[i].call = "new_payload"
                ELSE relay_calls[i] = RelayFcuCall(relay_calls[i - 1].hash)
          /\ \A i, j \in 1..Len(relay_calls) :
                (i < j /\ i % 2 = 1 /\ j % 2 = 1)
                   => relay_calls[i].hash < relay_calls[j].hash
          /\ (Len(relay_calls) % 2 = 1) <=> (rpc = "new_payload"))
    /\ [][IF rpc = "fetching" /\ last_fetch' = "block"
          THEN relay_calls' = Append(relay_calls, RelayNewPayloadCall(notified))
          ELSE IF rpc = "new_payload"
          THEN relay_calls' =
                   Append(relay_calls,
                          RelayFcuCall(relay_calls[Len(relay_calls)].hash))
          ELSE relay_calls' = relay_calls]_vars

\* C12 witness: new_payload for the second block was answered as not valid
\* and the forkchoice call for that block has been issued all the same.
C12_Witness ==
    /\ rpc = "fork_choice_updated"
    /\ Len(relay_calls) = 4
    /\ relay_response = <<[ok |-> TRUE, valid |-> FALSE, payload_id |-> FALSE]>>

\* C13: whatever new_payload answers the relay goes on to fork_choice_updated,
\* and whatever fork_choice_updated answers it goes on to wait for the next
\* notification; a notification is taken only while no block is in hand, one
\* at a time in arrival order; no engine answer ends the relay.
C13_EngineOutcomeNeverBranches ==
    [][/\ rpc = "new_payload" => rpc' = "fork_choice_updated"
       /\ rpc = "fork_choice_updated" => rpc' = "waiting"
       /\ notified' # notified =>
             /\ rpc = "waiting"
             /\ relay_hash = <<>>
             /\ notified' = notified + 1
       /\ (rpc' \in {"exited", "panicked"} /\ rpc' # rpc) =>
             rpc \in {"subscribing", "waiting", "fetching"}]_vars

\* C13 witness: fork_choice_updated for the first block answered with an
\* error and the relay is handling the second notification.
C13_Witness ==
    /\ notified = 2
    /\ rpc = "new_payload"
    /\ Len(relay_calls) = 3
    /\ relay_response = <<[ok |-> FALSE, valid |-> FALSE, payload_id |-> FALSE]>>

RECURSIVE HasUncles(_)
RECURSIVE UnclesMoved(_, _)
RECURSIVE KeepsSiblings(_, _, _)

\* Some object of the tree, at any depth, has an "uncles" field.
HasUncles(value) ==
    IF value.t = "obj"
    THEN \/ "uncles" \in DOMAIN value.f
         \/ \E k \in DOMAIN value.f : HasUncles(value.f[k])
    ELSE IF value.t = "arr"
    THEN \E i \in 1..Len(value.s) : HasUncles(value.s[i])
    ELSE FALSE

\* The name under which a field of the input appears in the output.
Target(k) == IF k = "uncles" THEN "ommers" ELSE k

\* Field k of the input object is an "ommers" field beside an "uncles" field.
Displaced(in, k) == k = "ommers" /\ "uncles" \in DOMAIN in.f

\* Tree `out` has the shape of tree `in`, with every "uncles" field of every
\* object of `in`, at any depth, held under "ommers" with the same entries,
\* themselves in this form; scalars are equal.
UnclesMoved(in, out) ==
    IF in.t = "obj"
    THEN /\ out.t = "obj"
         /\ "uncles" \in DOMAIN in.f => "ommers" \in DOMAIN out.f
         /\ \A k \in DOMAIN in.f :
               \/ Displaced(in, k)
               \/ /\ Target(k) \in DOMAIN out.f
                  /\ UnclesMoved(in.f[k], out.f[Target(k)])
    ELSE IF in.t = "arr"
    THEN /\ out.t = "arr"
         /\ Len(out.s) = Len(in.s)
         /\ \A i \in 1..Len(in.s) : UnclesMoved(in.s[i], out.s[i])
    ELSE out = in

\* In every object of `in`, at any depth, every field not named "uncles" is
\* in `out` under the same name, its value again in this relation to the
\* original value (scalars equal); with `exempt`, an "ommers" field beside an
\* "uncles" field is not required to be kept.
KeepsSiblings(in, out, exempt) ==
    IF in.t = "obj"
    THEN /\ out.t = "obj"
         /\ \A k \in DOMAIN in.f \ {"uncles"} :
               \/ exempt /\ Displaced(in, k)
               \/ /\ k \in DOMAIN out.f
                  /\ KeepsSiblings(in.f[k], out.f[k], exempt)
         /\ ("uncles" \in DOMAIN in.f /\ "ommers" \in DOMAIN out.f)
               => KeepsSiblings(in.f["uncles"], out.f["ommers"], exempt)
         /\ DOMAIN out.f \subseteq DOMAIN in.f \cup {"ommers"}
    ELSE IF in.t = "arr"
    THEN /\ out.t = "arr"
         /\ Len(out.s) = Len(in.s)
         /\ \A i \in 1..Len(in.s) : KeepsSiblings(in.s[i], out.s[i], exempt)
    ELSE out = in

\* C14: the normalisation is idempotent: applied to a tree that has been
\* normalised once, it returns that tree.
C14_NormalisationIdempotent ==
    [][passes >= 1 => json' = json]_vars

\* C14 witness: a tree holding both an "uncles" and an "ommers" field was
\* normalised twice, and the normalisation changed it.
C14_Witness ==
    /\ passes = 2
    /\ json # json_input
    /\ json_input.t = "obj"
    /\ {"uncles", "ommers"} \subseteq DOMAIN json_input.f

\* C15: after the normalisation no object at any depth has an "uncles" field,
\* and every object that had one has an "ommers" field holding the same
\* entries, normalised.
C15_UnclesRenamedEverywhere ==
    passes = 1 =>
        /\ ~HasUncles(json)
        /\ UnclesMoved(json_input, json)

\* C15 witness: an object whose "uncles" array has two entries, and whose
\* "number" field is an object with an "uncles" field of its own, has been
\* normalised: "ommers" holds the two entries and the inner field is renamed.
C15_Witness ==
    /\ passes = 1
    /\ json_input =
          Obj([k \in {"uncles", "number"} |->
                  IF k = "uncles"
                  THEN Arr(<<Str("0xabc"), Str("0xdef")>>)
                  ELSE Obj([j \in {"uncles"} |-> Str("0xdef")])])
    /\ json =
          Obj([k \in {"ommers", "number"} |->
                  IF k = "ommers"
                  THEN Arr(<<Str("0xabc"), Str("0xdef")>>)
                  ELSE Obj([j \in {"ommers"} |-> Str("0xdef")])])

\* C16 as stated: in every object, at any depth, every field not named
\* "uncles" is still there after the normalisation under the same name with
\* the normalised form of its value, an "ommers" field included.
C16_AsStated ==
    passes = 1 => KeepsSiblings(json_input, json, FALSE)

\* C16 as amended: the same, except that an "ommers" field of an object that
\* also has an "uncles" field is replaced by the renamed field.
C16_SiblingsKeptUnlessDisplaced ==
    passes = 1 => KeepsSiblings(json_input, json, TRUE)

\* C16 witness: an object with "uncles", "ommers" and "number" was normalised:
\* "number" is kept and "ommers" now holds what "uncles" held.
C16_Witness ==
    /\ passes = 1
    /\ json_input.t = "obj"
    /\ DOMAIN json_input.f = Keys
    /\ json_input.f["uncles"] # json_input.f["ommers"]
    /\ DOMAIN json.f = {"ommers", "number"}
    /\ json.f["number"] = json_input.f["number"]
    /\ json.f["ommers"] = json_input.f["uncles"]

\* C17: a tree in which no object at any depth has an "uncles" field comes
\* out of the normalisation equal to what went in.
C17_NoUnclesUnchanged ==
    (passes >= 1 /\ ~HasUncles(json_input)) => json = json_input

\* C17 witness: a tree without "uncles", with nested objects and an array,
\* has been normalised.
C17_Witness ==
    /\ passes = 1
    /\ json_input =
          Obj([k \in {"ommers", "number"} |->
                  IF k = "ommers"
                  THEN Arr(<<Str("0xabc"), Str("0xdef")>>)
                  ELSE Obj([j \in {"number"} |-> Str("0xabc")])])
    /\ json = json_input


\* The calls of one Advance, in the order of the code.
AdvanceCalls == <<"fork_choice_updated", "resolve_kind", "new_payload">>

\* fork_choice_updated answered Ok, valid, and with a payload id.
FcuGaveBuildJob ==
    /\ fcu_res # <<>>
    /\ fcu_res[1].ok /\ fcu_res[1].valid /\ fcu_res[1].payload_id

\* C18: the calls of an Advance are a prefix of fork_choice_updated,
\* resolve_kind, new_payload (that order, at most one of each); the
\* fork_choice_updated carries the state of the current window and attributes
\* built from the candidate timestamp; the builder is queried only after
\* fork_choice_updated answered valid with a payload id, and new_payload is
\* called only after the builder resolved a payload.
C18_AdvanceCallsOrderedAndGated ==
    (role = "producer" /\ last_tick.tick = "advance") =>
        /\ Len(calls) \in 1..3
        /\ calls = SubSeq(AdvanceCalls, 1, Len(calls))
        /\ pc = "advance_fcu" =>
              /\ Len(calls) = 1
              /\ fcu_res = <<>> /\ payload = <<>>
        /\ pc \in {"advance_fcu", "advance_resolve", "advance_new_payload"} =>
              /\ timestamp = <<next_timestamp(last_timestamp, wall[1])>>
              /\ last_fcu = <<[state |-> Current, attrs |-> timestamp]>>
        /\ pc = "advance_resolve" =>
              /\ Len(calls) = 2
              /\ FcuGaveBuildJob /\ payload = <<>>
        /\ pc = "advance_new_payload" =>
              /\ Len(calls) = 3
              /\ FcuGaveBuildJob /\ payload # <<>>
        /\ last_tick.result \in {"Invalid payload status", "No payload id"} =>
              Len(calls) = 1
        /\ last_tick.result = "No payload" => Len(calls) = 2
        /\ last_tick.result \in {"Invalid payload", "ok"} => Len(calls) = 3

\* C18 witness: the second Advance has issued all three calls, after a
\* fork_choice_updated that returned a payload id and a builder that resolved
\* a payload, and waits for the answer of new_payload.
C18_Witness ==
    /\ pc = "advance_new_payload"
    /\ Len(produced) = 1
    /\ calls = AdvanceCalls
    /\ FcuGaveBuildJob
    /\ payload = <<2>>


\* C19: when the normalised tree of a fetched block does not deserialise into
\* the typed header or body, the relay is terminated: neither new_payload nor
\* fork_choice_updated has been issued for that block, and the relay never
\* leaves that position, so no later notification is taken from the stream.
C19_DeserialisationFailureTerminates ==
    last_fetch = "bad_block" =>
        /\ rpc = "panicked"
        /\ relay_hash = <<>>
        /\ \A i \in 1..Len(relay_calls) :
              relay_calls[i] \notin {RelayNewPayloadCall(notified),
                                     RelayFcuCall(notified)}

\* C19 witness: the first block was relayed with both calls, the second
\* block did not deserialise.
C19_Witness ==
    /\ last_fetch = "bad_block"
    /\ notified = 2
    /\ relay_calls = <<RelayNewPayloadCall(1), RelayFcuCall(1)>>
    /\ rpc = "panicked"


\* The step sends a fork_choice_updated of the scheduler.
SchedulerSendsFcu == pc = "select" /\ pc' \in {"advance_fcu", "announce_fcu"}

\* The head named by the scheduler's last fork_choice_updated.
AnnouncedHead == last_fcu[1].state.head_block_hash

\* C20: the step that commits a block sends nothing, and the
\* fork_choice_updated its Advance sent does not name the block; every
\* fork_choice_updated the scheduler sends, so the first one after a
\* successful Advance, has the last produced block as head; an Announce
\* carries no attributes and leaves window and clock alone; and a
\* fork_choice_updated is sent only from the select point, never while an
\* Advance is between its fork_choice_updated and its commit.
C20_BlockAnnouncedByNextTick ==
    [][ /\ Committed =>
              /\ last_fcu' = last_fcu /\ calls' = calls
              /\ AnnouncedHead # CommittedHash
        /\ SchedulerSendsFcu =>
              /\ last_fcu'[1].state.head_block_hash = Chain[Len(Chain)]
              /\ pc' = "announce_fcu" => last_fcu'[1].attrs = <<>>
        /\ (pc' = "announce_fcu" \/ pc = "announce_fcu") =>
              UNCHANGED <<last_block_hashes, last_timestamp, produced>>
        /\ pc' = "announce_fcu" => pc = "select"
        /\ last_fcu' # last_fcu => SchedulerSendsFcu
      ]_vars

\* C20 witness: after the first successful Advance an Announce tick has sent
\* the fork_choice_updated that names the produced block as head, without
\* attributes; the Advance's own fork_choice_updated named the construction
\* hash.
C20_Witness ==
    /\ pc = "announce_fcu"
    /\ Len(produced) = 1
    /\ AnnouncedHead = produced[1].hash
    /\ last_fcu[1].attrs = <<>>
    /\ last_block_hashes = <<GenesisHash, produced[1].hash>>

====
